---- MODULE Spec2Model ----
(***************************************************************************)
(* Coordinate assignment of llm-adventure (api/services/coordinate_mapper) *)
(* and the SQLAlchemy session it runs on (api/config/orm_database).        *)
(*                                                                         *)
(* Angles are integers in thousandths of a degree (40 degrees = 40000).    *)
(* A coordinate is the WKT point the code stores, 'POINT(lon lat)', kept   *)
(* as the pair <<lon, lat>>; NoCoord is a NULL coordinates column.         *)
(* Distances are integers in metres.                                       *)
(***************************************************************************)
EXTENDS Integers, Sequences, FiniteSets, TLC

\* ------------------------------------------------------------------ bounds
\* Largest number of locations in one world.
MaxLocs == 3
\* Number of locations of each world when two requests run side by side.
ConcLocs == 2
\* Largest number of wizard sessions started.
MaxSessions == 2
\* Number of plugin objects offered to the registry.
MaxPlugins == 3
\* Largest max_attempts a retry node is created with.
MaxRetryLimit == 2
\* Largest attempts counter followed (applications of a retry node stop there).
AttemptsCap == 4
\* Largest number of respond calls accepted on one wizard session.
MaxResponds == 3

\* The two wizard_finalize requests of one server process; request r works on
\* world r.
Runs == {1, 2}

\* ------------------------------------------------------- program constants
LatMin == -40000
LatMax == 40000
LonMin == -180000
LonMax == 180000
\* Longitude clamp of anchor placement and of conflict repair.
BandLonMin == -40000
BandLonMax == 40000
\* _resolve_conflicts(min_distance_km = 5.0), in metres.
MinDistanceM == 5000
\* _adjust_location_with_offset(offset_km = 10), in metres.
OffsetM == 10000
\* Metres per thousandth of a degree of latitude on the geography sphere.
MetresPerMilliDegree == 111

NoCoord == <<>>

Abs(x) == IF x < 0 THEN -x ELSE x
Max(a, b) == IF a >= b THEN a ELSE b
Min(a, b) == IF a <= b THEN a ELSE b

\* f'SRID=4326;POINT({lon} {lat})': longitude first, latitude second.
WKTPoint(lat, lon) == <<lon, lat>>
\* ST_X / ST_Y of a stored point; _extract_lat_lon_from_geography reads the
\* same order back.
ST_X(p) == p[1]
ST_Y(p) == p[2]

\* ------------------------------------------------------------------ worlds
\* Location.relative_position: None/empty, whitespace only, a constraint
\* naming the first location of the world, a constraint naming a location no
\* world has.
NoText == ""
BlankText == "   "
RelTexts == {NoText, BlankText, "north of L1", "north of Atlantis"}
\* Names of the locations of a world, in load order.
LocName(i) == IF i = 1 THEN "L1" ELSE IF i = 2 THEN "L2" ELSE IF i = 3 THEN "L3" ELSE "L4"
\* The reference a constraint text names ("" when it names none).
ReferenceName(text) ==
  IF text = "north of L1" THEN "L1"
  ELSE IF text = "north of Atlantis" THEN "Atlantis"
  ELSE ""

\* str.strip() of the texts above.
Strip(text) == IF text = BlankText THEN "" ELSE text

\* Coordinates a location can carry before a run: none, or the point of
\* test_coordinate_mapper_respects_existing_coordinates, POINT(35.0 15.0).
PreCoords == {NoCoord, WKTPoint(15000, 35000)}

\* ---------------------------------------------------------------- geometry
\* cos(latitude) in thousandths, by ten-degree bands of the latitude.
CosPermille(lat) ==
  IF Abs(lat) < 5000 THEN 1000
  ELSE IF Abs(lat) < 15000 THEN 985
  ELSE IF Abs(lat) < 25000 THEN 940
  ELSE IF Abs(lat) < 35000 THEN 866
  ELSE 766

\* Longitude of a geography point, brought back into [-180, 180].
NormLon(lon) ==
  IF lon > 180000 THEN lon - 360000
  ELSE IF lon < -180000 THEN lon + 360000
  ELSE lon

\* ST_Distance(:geog1::geography, :geog2::geography) < limit metres, for the
\* limits of a few kilometres the code uses: points more than a tenth of a
\* degree apart in latitude or longitude are farther than that.
CloserThan(p, q, limitM) ==
  LET dlat == ST_Y(p) - ST_Y(q)
      dlon == NormLon(ST_X(p) - ST_X(q))
  IN  IF Abs(dlat) > 100 \/ Abs(dlon) > 100 THEN FALSE
      ELSE LET dy == dlat * MetresPerMilliDegree
               dx == (dlon * MetresPerMilliDegree * CosPermille(ST_Y(p))) \div 1000
           IN  dx * dx + dy * dy < limitM * limitM

\* Bearings random.uniform(0, 360) is sampled at: north, east, south, west.
Bearings == {0, 90, 180, 270}
CosBearing(b) == IF b = 0 THEN 1 ELSE IF b = 180 THEN -1 ELSE 0
SinBearing(b) == IF b = 90 THEN 1 ELSE IF b = 270 THEN -1 ELSE 0

\* ST_Project(:geog::geography, :dist, :azimuth), read back with ST_Y / ST_X:
\* the pair (lat, lon) of the destination.
ST_Project(p, distM, bearing) ==
  LET lat == ST_Y(p) + (distM * CosBearing(bearing)) \div MetresPerMilliDegree
      lon == ST_X(p) + (distM * SinBearing(bearing) * 1000)
                          \div (MetresPerMilliDegree * CosPermille(ST_Y(p)))
  IN  <<lat, NormLon(lon)>>

\* ------------------------------------------------------- anchor placement
\* The golden-angle spiral before the final clamp, (latitude, longitude):
\* asin(y) * 40/90 and atan2(z, x) * 40/180 with y = 1 - 2 * index/(total - 1),
\* evaluated in floating point and rounded to thousandths of a degree.
SpiralPoint(index, total_points) ==
  CASE total_points = 2 /\ index = 1 -> <<-40000, 40000>>
    [] total_points = 3 /\ index = 1 -> <<0, 30557>>
    [] total_points = 3 /\ index = 2 -> <<-40000, 0>>
    [] total_points = 4 /\ index = 1 -> <<8654, 30557>>
    [] total_points = 4 /\ index = 2 -> <<-8654, -18885>>
    [] total_points = 4 /\ index = 3 -> <<-40000, 0>>
    [] total_points = 5 /\ index = 1 -> <<13333, 30557>>
    [] total_points = 5 /\ index = 2 -> <<0, -18885>>
    [] total_points = 5 /\ index = 3 -> <<-13333, 11672>>
    [] total_points = 5 /\ index = 4 -> <<-40000, -40000>>
    [] OTHER -> <<40000, 0>>

\* The spiral point on the whole sphere: longitude not re-scaled by 40/180
\* and kept within the world range of 180 degrees either side.
FibonacciSpherePointWorldLongitude(index, total_points) ==
  LET raw == SpiralPoint(index, total_points)
      latitude == Max(LatMin, Min(LatMax, raw[1]))
      longitude == Max(LonMin, Min(LonMax, (raw[2] * 180) \div 40))
  IN  <<latitude, longitude>>

\* _fibonacci_sphere_point: the spiral point clamped to the band, returned as
\* (latitude, longitude).
FibonacciSpherePoint(index, total_points) ==
  LET raw == SpiralPoint(index, total_points)
      latitude == Max(LatMin, Min(LatMax, raw[1]))
      longitude == Max(BandLonMin, Min(BandLonMax, raw[2]))
  IN  <<latitude, longitude>>

\* ------------------------------------------------------ the Oracle's reply
\* A JSON value under proposed_lat / proposed_lon: the key is absent, null, a
\* string that is no number ("north"), a string holding a number ("12.0"),
\* NaN, or a number (v, in thousandths of a degree).
Absent == [kind |-> "absent", v |-> 0]
Null == [kind |-> "null", v |-> 0]
Text == [kind |-> "text", v |-> 0]
NaN == [kind |-> "nan", v |-> 0]
NumStr(x) == [kind |-> "numstr", v |-> x]
Num(x) == [kind |-> "number", v |-> x]

LatValues ==
  {Absent, Null, Text, NaN, NumStr(12000), Num(-40001), Num(12000), Num(40000), Num(40001)}
LonValues ==
  {Absent, Text, Num(-180001), Num(34000), Num(180000), Num(180001)}
Confidences == {"absent", "high", "medium", "low"}

\* One entry of validation_results: whether it has the key 'constraint', and
\* its 'satisfied' value ("absent" when the key is missing).
Entry(has, sat) == [has_constraint |-> has, satisfied |-> sat]
ValidationLists ==
  { <<>>,
    <<Entry(TRUE, "true")>>,
    <<Entry(TRUE, "true"), Entry(TRUE, "false")>>,
    <<Entry(TRUE, "false"), Entry(TRUE, "absent")>>,
    <<Entry(FALSE, "false")>>,
    <<Entry(FALSE, "true")>> }
\* validation_results: the key is absent, null, or a list of entries.
Validations ==
  { [kind |-> "absent", items |-> <<>>], [kind |-> "null", items |-> <<>>] }
    \cup { [kind |-> "list", items |-> s] : s \in ValidationLists }

\* How the final message carries its text: bare JSON, a ```json fence, a bare
\* ``` fence, a fence tagged with another language.
Wraps == {"plain", "json_fence", "fence", "tagged_fence"}
\* The text the message carries: a JSON object, a JSON array, no JSON at all.
Bodies == {"object", "array", "garbage"}

Reply(msg, wrap, body, lat, lon, conf, val) ==
  [msg |-> msg, wrap |-> wrap, body |-> body, proposed_lat |-> lat,
   proposed_lon |-> lon, confidence |-> conf, validation_results |-> val]

AllSatisfied == [kind |-> "list", items |-> <<Entry(TRUE, "true")>>]

\* The replies the Oracle is drawn from: every latitude value and every
\* longitude value under a plain well-formed report; in-bounds and
\* out-of-bounds proposals under every confidence and every validation
\* report; the other shapes of the message.
OracleReplies ==
  { Reply("text", "plain", "object", la, Num(34000), "high", AllSatisfied) :
      la \in LatValues }
  \cup
  { Reply("text", "plain", "object", la, lo, "high", AllSatisfied) :
      la \in {Num(12000), Num(40001), Absent}, lo \in LonValues }
  \cup
  { Reply("text", "plain", "object", Num(x[1]), Num(x[2]), c, v) :
      x \in {<<12000, 34000>>, <<40001, 34000>>, <<12000, 180001>>},
      c \in Confidences, v \in Validations }
  \cup
  { Reply("text", w, b, Num(12000), Num(34000), "high", AllSatisfied) :
      w \in Wraps, b \in Bodies }
  \cup
  { Reply("none", "plain", "object", Num(12000), Num(34000), "high", AllSatisfied) }

\* The text handed to json.loads: what the fence stripping of the code leaves.
\* A fence tagged with another language leaves the tag in front of the text.
JsonStr(reply) ==
  IF reply.wrap = "tagged_fence" THEN "garbage" ELSE reply.body

\* float(x or 0): null read as zero.
FloatNullAsZero(x) ==
  CASE x.kind = "number" -> [error |-> "", nan |-> FALSE, v |-> x.v]
    [] x.kind = "numstr" -> [error |-> "", nan |-> FALSE, v |-> x.v]
    [] x.kind = "nan"    -> [error |-> "", nan |-> TRUE, v |-> 0]
    [] x.kind = "text"   -> [error |-> "ValueError", nan |-> FALSE, v |-> 0]
    [] x.kind = "null"   -> [error |-> "", nan |-> FALSE, v |-> 0]
    [] OTHER             -> [error |-> "KeyError", nan |-> FALSE, v |-> 0]

\* float(x) of a JSON value: "" and the number, or the exception raised.
Float(x) ==
  CASE x.kind = "number" -> [error |-> "", nan |-> FALSE, v |-> x.v]
    [] x.kind = "numstr" -> [error |-> "", nan |-> FALSE, v |-> x.v]
    [] x.kind = "nan"    -> [error |-> "", nan |-> TRUE, v |-> 0]
    [] x.kind = "text"   -> [error |-> "ValueError", nan |-> FALSE, v |-> 0]
    [] x.kind = "null"   -> [error |-> "TypeError", nan |-> FALSE, v |-> 0]
    [] OTHER             -> [error |-> "KeyError", nan |-> FALSE, v |-> 0]

\* The range check with its upper limit left out.
WithinNoUpperLimit(f, lo, hi) == ~f.nan /\ lo <= f.v

\* lo <= x <= hi on floats: false for NaN.
Within(f, lo, hi) == ~f.nan /\ lo <= f.v /\ f.v <= hi

\* The log call turned into a check that every constraint is satisfied.
LogConstraintsErrorOnUnsatisfied(val) ==
  IF val.kind = "absent" THEN ""
  ELSE IF val.kind = "null" THEN "TypeError"
  ELSE IF \E n \in 1..Len(val.items) : val.items[n].satisfied # "true"
       THEN "ValueError"
       ELSE ""

\* The list comprehension of the log call: v['constraint'] for each entry with
\* v.get('satisfied', False); the exception it raises, or "".
LogConstraintsError(val) ==
  IF val.kind = "absent" THEN ""
  ELSE IF val.kind = "null" THEN "TypeError"
  ELSE IF \E n \in 1..Len(val.items) :
            val.items[n].satisfied = "true" /\ ~val.items[n].has_constraint
       THEN "KeyError"
       ELSE ""

\* json.JSONDecodeError, KeyError and ValueError are caught inside
\* _calculate_coordinates_from_parse and raised again as ValueError; anything
\* else leaves the function as it is.
Reraised(error) ==
  IF error \in {"JSONDecodeError", "KeyError", "ValueError"} THEN "ValueError" ELSE error

Failure(error) == [error |-> Reraised(error), lat |-> 0, lon |-> 0]

\* The bounds check replaced by a clip of the proposal to the bounds.
CalculateCoordinatesClipping(reply) ==
  IF reply.msg = "none" THEN [error |-> "IndexError", lat |-> 0, lon |-> 0]
  ELSE IF JsonStr(reply) = "garbage" THEN Failure("JSONDecodeError")
  ELSE IF JsonStr(reply) = "array" THEN Failure("TypeError")
  ELSE
    LET lat == Float(reply.proposed_lat)
        lon == Float(reply.proposed_lon)
    IN  IF lat.error # "" THEN Failure(lat.error)
        ELSE IF lon.error # "" THEN Failure(lon.error)
        ELSE IF lat.nan \/ lon.nan THEN Failure("ValueError")
        ELSE IF LogConstraintsError(reply.validation_results) # ""
             THEN Failure(LogConstraintsError(reply.validation_results))
        ELSE [error |-> "", lat |-> Max(LatMin, Min(LatMax, lat.v)),
              lon |-> Max(LonMin, Min(LonMax, lon.v))]

\* _calculate_coordinates_from_parse from the agent's result on: the
\* exception that leaves the function ("" when it returns) and the pair
\* (lat, lon) it returns.
CalculateCoordinatesFromParse(reply) ==
  IF reply.msg = "none" THEN [error |-> "IndexError", lat |-> 0, lon |-> 0]
  ELSE IF JsonStr(reply) = "garbage" THEN Failure("JSONDecodeError")
  ELSE IF JsonStr(reply) = "array" THEN Failure("TypeError")
  ELSE
    LET lat == Float(reply.proposed_lat)
        lon == Float(reply.proposed_lon)
    IN  IF lat.error # "" THEN Failure(lat.error)
        ELSE IF lon.error # "" THEN Failure(lon.error)
        ELSE IF ~Within(lat, LatMin, LatMax) THEN Failure("ValueError")
        ELSE IF ~Within(lon, LonMin, LonMax) THEN Failure("ValueError")
        ELSE IF LogConstraintsError(reply.validation_results) # ""
             THEN Failure(LogConstraintsError(reply.validation_results))
        ELSE [error |-> "", lat |-> lat.v, lon |-> lon.v]

\* ------------------------------------------------------------------- state
VARIABLES
  numLocs,    \* numLocs[w]: number of rows of table locations with world_id w
  relpos,     \* relpos[w][i]: column relative_position of location i of world w
  db,         \* db[w][i]: column coordinates as committed, what any other connection reads
  orig,       \* orig[w][i]: column coordinates when the server started (kept for reference)
  obj,        \* obj[r][i]: attribute coordinates of the Location object request r holds
  session,    \* session[w][i]: the Location in the thread's scoped session: "absent", "clean", "dirty"
  pc,         \* pc[r]: where request r stands
  anchors,    \* anchors[r]: the list anchors of the run
  relatives,  \* relatives[r]: the list relatives of the run
  k,          \* k[r]: position in relatives of the location being resolved
  ci,         \* ci[r]: position of loc1 in the conflict scan
  cj,         \* cj[r]: position of loc2 in the conflict scan
  last,       \* last[r]: the latest attempt to resolve a relative location
  failed,     \* failed[r]: the relative locations whose resolution raised
  summary,    \* summary[r]: the CoordinateAssignmentSummary returned
  wrow,       \* wrow[s]: the row of session s in world_generation_sessions
  wobj,       \* the WorldGenerationSession object of the call in progress
  wpc,        \* where the wizard call in progress stands
  wcall,      \* the latest call of the wizard service and its outcome
  wcreated,   \* rows finalize has inserted: locations and facts
  whist,      \* whist[s]: what the calls on session s gathered and reported
  plugins,    \* PluginRegistry.plugins: name -> plugin
  pfirst,     \* pfirst[name]: the plugin of the first register that succeeded
  pcall,      \* the latest call of the registry and its outcome
  node        \* the retry node created and the state it was last applied to

\* The state of coordinate assignment, of the wizard service, and of the
\* core package (plugin registry, retry node).
mapper == <<numLocs, relpos, db, orig, obj, session, pc, anchors, relatives, k,
            ci, cj, last, failed, summary>>
wizard == <<wrow, wobj, wpc, wcall, wcreated, whist>>
core == <<plugins, pfirst, pcall, node>>

vars == <<numLocs, relpos, db, orig, obj, session, pc, anchors, relatives, k,
          ci, cj, last, failed, summary, wrow, wobj, wpc, wcall, wcreated,
          whist, plugins, pfirst, pcall, node>>

\* WizardOrchestrationService.STAGES
STAGES == <<"world_identity", "locations", "complete">>

\* No row, and no object loaded.
NoRow == [stage |-> "", is_complete |-> FALSE, history |-> 0,
          locations |-> 0, facts |-> 0]

NoCall == [op |-> "none", sid |-> 0, before |-> NoRow, outcome |-> "",
           advanced |-> "", stage |-> "", is_complete |-> FALSE,
           progress |-> -1, created |-> 0]

\* Nothing called on a session yet: no progress reported, no respond
\* accepted, nothing extracted from the user's answers.
NoHist == [progress |-> -1, responds |-> 0, locations |-> 0, facts |-> 0]

\* Ids of the wizard sessions start_session can create.
WSessions == 1..MaxSessions

\* Before start_session: no wizard session exists.
WizardInit ==
  /\ wrow = [s \in WSessions |-> NoRow]
  /\ wobj = NoRow
  /\ wpc = "idle"
  /\ wcall = NoCall
  /\ wcreated = [locations |-> 0, facts |-> 0]
  /\ whist = [s \in WSessions |-> NoHist]

\* Names a plugin class can carry, and the plugin objects offered for
\* registration: plugin i carries PluginName(i), so objects share names.
PluginNames == {"world_builder", "conversation"}
PluginIds == 1..MaxPlugins
PluginName(i) == IF i % 2 = 1 THEN "world_builder" ELSE "conversation"

\* No plugin bound to a name.
NoPlugin == 0

NoRegistryCall == [op |-> "none", name |-> "", plugin |-> NoPlugin,
                   outcome |-> "", result |-> NoPlugin]

\* No retry node created.
NoNode == [created |-> FALSE, max_attempts |-> 0, backoff |-> "",
           has_attempts |-> FALSE, attempts |-> 0, applied |-> 0]

\* PluginRegistry.__init__, and no retry node created yet.
CoreInit ==
  /\ plugins = [n \in PluginNames |-> NoPlugin]
  /\ pfirst = [n \in PluginNames |-> NoPlugin]
  /\ pcall = NoRegistryCall
  /\ node = NoNode

Locs(w) == 1..numLocs[w]

NoSummary == [total_locations |-> -1, locations_with_coordinates |-> -1,
              anchor_locations |-> -1, relative_locations |-> -1]

NoReply == Reply("not_called", "plain", "garbage", Absent, Absent, "absent",
                 [kind |-> "absent", items |-> <<>>])

\* No attempt made yet in this step.
NoAttempt == [loc |-> 0, parser |-> "", agent |-> "", reply |-> NoReply,
              error |-> "", before |-> NoCoord]

\* Points where a request awaits and the event loop may run the other one:
\* before the handler starts, inside parser_chain.ainvoke, and once it is over.
YieldPoints == {"off", "request", "await_parser", "returned", "raised"}

\* The event loop runs one handler at a time up to its next await.
MayRun(r) == \A r2 \in Runs \ {r} : pc[r2] \in YieldPoints

\* Worlds of the single-request specification: world 1 is any world of up to
\* MaxLocs locations, world 2 is empty and its request never arrives.
Init ==
  /\ numLocs \in {n \in [Runs -> 0..MaxLocs] : n[2] = 0}
  /\ relpos \in {t \in [Runs -> UNION {[1..n -> RelTexts] : n \in 0..MaxLocs}] :
                   \A w \in Runs : DOMAIN t[w] = 1..numLocs[w]}
  /\ db \in {c \in [Runs -> UNION {[1..n -> PreCoords] : n \in 0..MaxLocs}] :
               \A w \in Runs : DOMAIN c[w] = 1..numLocs[w]}
  /\ orig = db
  /\ obj = db
  /\ session = [w \in Runs |-> [i \in Locs(w) |-> "absent"]]
  /\ pc = [r \in Runs |-> IF r = 1 THEN "request" ELSE "off"]
  /\ anchors = [r \in Runs |-> <<>>]
  /\ relatives = [r \in Runs |-> <<>>]
  /\ k = [r \in Runs |-> 0]
  /\ ci = [r \in Runs |-> 0]
  /\ cj = [r \in Runs |-> 0]
  /\ last = [r \in Runs |-> NoAttempt]
  /\ failed = [r \in Runs |-> {}]
  /\ summary = [r \in Runs |-> NoSummary]
  /\ WizardInit
  /\ CoreInit

\* ------------------------------------------------------------- the session
\* Session.close(): every object leaves the session, pending changes are
\* dropped with the transaction.
SessionClose(s) == [w \in Runs |-> [i \in DOMAIN s[w] |-> "absent"]]

\* The flush of Session.commit(): the UPDATE of every dirty object of the
\* session, whichever request changed it.
Flushed(s, o, d) ==
  [w \in Runs |-> [i \in DOMAIN d[w] |-> IF s[w][i] = "dirty" THEN o[w][i] ELSE d[w][i]]]
SessionCommit(s) ==
  [w \in Runs |-> [i \in DOMAIN s[w] |-> IF s[w][i] = "dirty" THEN "clean" ELSE s[w][i]]]

\* Assignment to loc.coordinates: the session records the change of an object
\* it holds; an object it no longer holds is changed in memory only.
Touched(s, r, i) ==
  [s EXCEPT ![r][i] = IF s[r][i] = "absent" THEN "absent" ELSE "dirty"]

\* ------------------------------------------------------------ the request
\* wizard_finalize up to the call of assign_coordinates_to_world:
\* next(get_db_session()) hands out the thread's scoped session, and the
\* generator, dropped at once, runs its finally clause, db.close(); finalize
\* then commits.
Begin(r) ==
  /\ pc[r] = "request"
  /\ MayRun(r)
  /\ db' = Flushed(SessionClose(session), obj, db)
  /\ session' = SessionCommit(SessionClose(session))
  /\ pc' = [pc EXCEPT ![r] = "load"]
  /\ UNCHANGED <<numLocs, relpos, orig, obj, anchors, relatives, k, ci, cj,
                 last, failed, summary>>
  /\ UNCHANGED wizard
  /\ UNCHANGED core

\* The query without the early return for a world without locations.
LoadWithoutEarlyReturn(r) ==
  /\ pc[r] = "load"
  /\ MayRun(r)
  /\ obj' = [obj EXCEPT ![r] = [i \in Locs(r) |->
               IF session[r][i] = "absent" THEN db[r][i] ELSE obj[r][i]]]
  /\ session' = [session EXCEPT ![r] = [i \in Locs(r) |->
               IF session[r][i] = "absent" THEN "clean" ELSE session[r][i]]]
  /\ pc' = [pc EXCEPT ![r] = "identify"]
  /\ UNCHANGED <<numLocs, relpos, db, orig, anchors, relatives, k, ci, cj,
                 last, failed, summary>>
  /\ UNCHANGED wizard
  /\ UNCHANGED core

\* self.db.query(Location).filter_by(world_id=world_id).all(), and the early
\* return for a world without locations.
Load(r) ==
  /\ pc[r] = "load"
  /\ MayRun(r)
  /\ obj' = [obj EXCEPT ![r] = [i \in Locs(r) |->
               IF session[r][i] = "absent" THEN db[r][i] ELSE obj[r][i]]]
  /\ session' = [session EXCEPT ![r] = [i \in Locs(r) |->
               IF session[r][i] = "absent" THEN "clean" ELSE session[r][i]]]
  /\ IF numLocs[r] = 0
     THEN /\ summary' = [summary EXCEPT ![r] =
                 [total_locations |-> 0, locations_with_coordinates |-> 0,
                  anchor_locations |-> 0, relative_locations |-> 0]]
          /\ pc' = [pc EXCEPT ![r] = "returned"]
     ELSE /\ summary' = summary
          /\ pc' = [pc EXCEPT ![r] = "identify"]
  /\ UNCHANGED <<numLocs, relpos, db, orig, anchors, relatives, k, ci, cj,
                 last, failed>>
  /\ UNCHANGED wizard
  /\ UNCHANGED core

LocSeq(n) == [i \in 1..n |-> i]
InSeq(x, seq) == \E n \in 1..Len(seq) : seq[n] = x

\* not loc.relative_position or not loc.relative_position.strip()
HasNoPosition(text) == text = "" \/ Strip(text) = ""

\* _identify_anchor_locations without its "if not anchors" branch.
IdentifyAnchorLocationsNoFallback(r) ==
  SelectSeq(LocSeq(numLocs[r]), LAMBDA i : HasNoPosition(relpos[r][i]))

\* _identify_anchor_locations
IdentifyAnchorLocations(r) ==
  LET explicit == SelectSeq(LocSeq(numLocs[r]), LAMBDA i : HasNoPosition(relpos[r][i]))
  IN  IF explicit = <<>> THEN <<1>> ELSE explicit

\* Phase 1 with the constraint text of every anchor cleared, so that a forced
\* anchor reads as a plain anchor from then on.
IdentifyClearingAnchorText(r) ==
  /\ pc[r] = "identify"
  /\ MayRun(r)
  /\ anchors' = [anchors EXCEPT ![r] = IdentifyAnchorLocations(r)]
  /\ relatives' = [relatives EXCEPT ![r] =
        SelectSeq(LocSeq(numLocs[r]), LAMBDA i : ~InSeq(i, IdentifyAnchorLocations(r)))]
  /\ relpos' = [relpos EXCEPT ![r] = [i \in Locs(r) |->
        IF InSeq(i, IdentifyAnchorLocations(r)) THEN NoText ELSE relpos[r][i]]]
  /\ pc' = [pc EXCEPT ![r] = "distribute"]
  /\ UNCHANGED <<numLocs, db, orig, obj, session, k, ci, cj, last,
                 failed, summary>>
  /\ UNCHANGED wizard
  /\ UNCHANGED core

\* Phase 1: anchors, and relatives = [loc for loc in locations if loc not in anchors].
Identify(r) ==
  /\ pc[r] = "identify"
  /\ MayRun(r)
  /\ anchors' = [anchors EXCEPT ![r] = IdentifyAnchorLocations(r)]
  /\ relatives' = [relatives EXCEPT ![r] =
        SelectSeq(LocSeq(numLocs[r]), LAMBDA i : ~InSeq(i, IdentifyAnchorLocations(r)))]
  /\ pc' = [pc EXCEPT ![r] = "distribute"]
  /\ UNCHANGED <<numLocs, relpos, db, orig, obj, session, k, ci, cj, last,
                 failed, summary>>
  /\ UNCHANGED wizard
  /\ UNCHANGED core

\* The position of location i in the list seq (0 when it is not in it).
IndexIn(seq, i) == IF InSeq(i, seq) THEN CHOOSE n \in 1..Len(seq) : seq[n] = i ELSE 0

\* The placement without the "if i == 0" branch: every anchor on the spiral.
AnchorCoordinateSpiralOnly(n, total) ==
  LET p == FibonacciSpherePoint(n - 1, total) IN WKTPoint(p[1], p[2])

\* The loop body calling _fibonacci_sphere_point for every anchor, the first
\* one included.
AnchorPlacementSpiralOnly(n, total) ==
  [called |-> TRUE, index |-> n - 1, total_points |-> total,
   point |-> LET p == FibonacciSpherePoint(n - 1, total) IN WKTPoint(p[1], p[2])]

\* The body of the loop of _distribute_anchor_locations for the anchor at
\* position n (counted from 1, so enumerate gives i = n - 1) of a list of
\* total anchors: whether it calls _fibonacci_sphere_point, with which
\* arguments, and the point it stores.
AnchorPlacement(n, total) ==
  IF n - 1 = 0
  THEN [called |-> FALSE, index |-> 0, total_points |-> 0, point |-> WKTPoint(0, 0)]
  ELSE [called |-> TRUE, index |-> n - 1, total_points |-> total,
        point |-> LET p == FibonacciSpherePoint(n - 1, total) IN WKTPoint(p[1], p[2])]

\* The coordinate _distribute_anchor_locations gives the anchor at position
\* n (counted from 1) of a list of total anchors.
AnchorCoordinate(n, total) == AnchorPlacement(n, total).point

\* The distribution that leaves an anchor that has a coordinate where it is.
DistributeAnchorLocationsKeepingExisting(r) ==
  [i \in Locs(r) |->
     IF InSeq(i, anchors[r]) /\ obj[r][i] = NoCoord
     THEN AnchorCoordinate(IndexIn(anchors[r], i), Len(anchors[r]))
     ELSE obj[r][i]]

\* The objects of run r after _distribute_anchor_locations(anchors): every
\* anchor gets the coordinate of its position, whatever it had.
DistributeAnchorLocations(r) ==
  [i \in Locs(r) |->
     IF InSeq(i, anchors[r])
     THEN AnchorCoordinate(IndexIn(anchors[r], i), Len(anchors[r]))
     ELSE obj[r][i]]

\* Phase 2: _distribute_anchor_locations.
Distribute(r) ==
  /\ pc[r] = "distribute"
  /\ MayRun(r)
  /\ obj' = [obj EXCEPT ![r] = DistributeAnchorLocations(r)]
  /\ session' = [session EXCEPT ![r] = [i \in Locs(r) |->
               IF InSeq(i, anchors[r]) /\ session[r][i] # "absent"
               THEN "dirty" ELSE session[r][i]]]
  /\ k' = [k EXCEPT ![r] = 1]
  /\ pc' = [pc EXCEPT ![r] = "resolve"]
  /\ UNCHANGED <<numLocs, relpos, db, orig, anchors, relatives, ci, cj, last,
                 failed, summary>>
  /\ UNCHANGED wizard
  /\ UNCHANGED core

\* Phase 3, the head of the loop of _resolve_relative_positions: with a
\* location left, its parser call is issued and awaited; with none left (or
\* none at all) the function returns and the conflict scan starts.
NextRelative(r) ==
  /\ pc[r] = "resolve"
  /\ MayRun(r)
  /\ last' = [last EXCEPT ![r] = NoAttempt]
  /\ IF k[r] > Len(relatives[r])
     THEN /\ pc' = [pc EXCEPT ![r] = "conflicts"]
          /\ ci' = [ci EXCEPT ![r] = 1]
          /\ cj' = [cj EXCEPT ![r] = 2]
     ELSE /\ pc' = [pc EXCEPT ![r] = "await_parser"]
          /\ UNCHANGED <<ci, cj>>
  /\ UNCHANGED <<numLocs, relpos, db, orig, obj, session, anchors, relatives,
                 k, failed, summary>>
  /\ UNCHANGED wizard
  /\ UNCHANGED core

\* The request assign hands the agent: the location's name, its constraint
\* text and the world id, and no coordinate of any location.
OracleRequest(r, loc) ==
  [name |-> LocName(loc), constraint |-> relpos[r][loc], world_id |-> r,
   locations |-> <<>>]

\* What the agent's geometry tools read for location i of world r: they open
\* their own connection (engine.connect()) and select locations.coordinates,
\* the committed column, not the attribute of the run's objects.
ToolCoordinate(r, i) == db[r][i]

\* What one pass of the loop of _resolve_relative_positions meets: the caller
\* abandons the request during the awaited parser call, the parser chain
\* raises, the agent raises, or the agent answers with a reply.
Attempts ==
  { [parser |-> "cancelled", agent |-> "", reply |-> NoReply],
    [parser |-> "raises", agent |-> "", reply |-> NoReply],
    [parser |-> "ok", agent |-> "raises", reply |-> NoReply] }
  \cup { [parser |-> "ok", agent |-> "ok", reply |-> rp] : rp \in OracleReplies }

\* The loop body with a fallback to the origin for every failed resolution.
AttemptResultOriginFallback(a) ==
  IF a.parser = "cancelled" THEN [error |-> "CancelledError", lat |-> 0, lon |-> 0]
  ELSE IF a.parser = "raises" \/ a.agent = "raises" THEN [error |-> "", lat |-> 0, lon |-> 0]
  ELSE IF CalculateCoordinatesFromParse(a.reply).error # ""
       THEN [error |-> "", lat |-> 0, lon |-> 0]
       ELSE CalculateCoordinatesFromParse(a.reply)

\* The exception the try block of the loop ends with ("" when it ends
\* normally) and the coordinates computed.
AttemptResult(a) ==
  IF a.parser = "cancelled" THEN [error |-> "CancelledError", lat |-> 0, lon |-> 0]
  ELSE IF a.parser = "raises" THEN [error |-> "OutputParserException", lat |-> 0, lon |-> 0]
  ELSE IF a.agent = "raises" THEN [error |-> "AgentError", lat |-> 0, lon |-> 0]
  ELSE CalculateCoordinatesFromParse(a.reply)

\* The loop with "except ValueError" in place of "except Exception".
LoopCatchesValueErrorOnly(error) == error = "ValueError"

\* except Exception as e: every exception above but CancelledError, which
\* derives from BaseException.
LoopCatches(error) == error # "CancelledError"

\* Phase 3, the body of the loop of _resolve_relative_positions: the awaited
\* parser call returns or raises, the agent is invoked, and the coordinates
\* are stored or the exception is logged; an exception the loop does not
\* catch leaves assign_coordinates_to_world.
Resolve(r) ==
  /\ pc[r] = "await_parser"
  /\ MayRun(r)
  /\ \E a \in Attempts :
       LET loc == relatives[r][k[r]]
           res == AttemptResult(a)
       IN  /\ IF res.error = ""
              THEN /\ obj' = [obj EXCEPT ![r][loc] = WKTPoint(res.lat, res.lon)]
                   /\ session' = Touched(session, r, loc)
                   /\ failed' = failed
              ELSE /\ failed' = [failed EXCEPT ![r] =
                         IF LoopCatches(res.error) THEN @ \cup {loc} ELSE @]
                   /\ UNCHANGED <<obj, session>>
           /\ last' = [last EXCEPT ![r] =
                 [loc |-> loc, parser |-> a.parser, agent |-> a.agent,
                  reply |-> a.reply, error |-> res.error, before |-> obj[r][loc]]]
           /\ IF res.error = "" \/ LoopCatches(res.error)
              THEN /\ k' = [k EXCEPT ![r] = @ + 1]
                   /\ pc' = [pc EXCEPT ![r] = "resolve"]
              ELSE /\ k' = k
                   /\ pc' = [pc EXCEPT ![r] = "raised"]
  /\ UNCHANGED <<numLocs, relpos, db, orig, anchors, relatives, ci, cj, summary>>
  /\ UNCHANGED wizard
  /\ UNCHANGED core

\* The repair without its "Enforce bounds" lines.
AdjustedCoordinateUnclamped(p, bearing) ==
  LET q == ST_Project(p, OffsetM, bearing) IN WKTPoint(q[1], q[2])

\* _adjust_location_with_offset: project, clamp both to [-40, 40], store.
AdjustedCoordinate(p, bearing) ==
  LET q == ST_Project(p, OffsetM, bearing)
      lat == Max(LatMin, Min(LatMax, q[1]))
      lon == Max(BandLonMin, Min(BandLonMax, q[2]))
  IN  WKTPoint(lat, lon)

\* Whether the scan finds the pair a conflict.
Conflict(p, q) == p # NoCoord /\ q # NoCoord /\ CloserThan(p, q, MinDistanceM)

\* assign_coordinates_to_world without its call of _resolve_conflicts.
ConflictStepSkipped(r) ==
  /\ pc[r] = "conflicts"
  /\ MayRun(r)
  /\ pc' = [pc EXCEPT ![r] = "commit"]
  /\ UNCHANGED <<numLocs, relpos, db, orig, obj, session, anchors, relatives,
                 k, ci, cj, last, failed, summary>>
  /\ UNCHANGED wizard
  /\ UNCHANGED core

\* _resolve_conflicts as a fixed-point iteration: after a repair the scan
\* starts again from the first pair.
ConflictStepRescanning(r) ==
  /\ pc[r] = "conflicts"
  /\ MayRun(r)
  /\ IF ci[r] >= numLocs[r]
     THEN /\ pc' = [pc EXCEPT ![r] = "commit"]
          /\ UNCHANGED <<obj, session, ci, cj>>
     ELSE /\ IF Conflict(obj[r][ci[r]], obj[r][cj[r]])
             THEN /\ \E bearing \in Bearings :
                       /\ obj' = [obj EXCEPT ![r][cj[r]] = AdjustedCoordinate(@, bearing)]
                       /\ session' = Touched(session, r, cj[r])
                  /\ ci' = [ci EXCEPT ![r] = 1]
                  /\ cj' = [cj EXCEPT ![r] = 2]
             ELSE /\ UNCHANGED <<obj, session>>
                  /\ IF cj[r] < numLocs[r]
                     THEN /\ cj' = [cj EXCEPT ![r] = @ + 1]
                          /\ ci' = ci
                     ELSE /\ ci' = [ci EXCEPT ![r] = @ + 1]
                          /\ cj' = [cj EXCEPT ![r] = ci[r] + 2]
          /\ pc' = pc
  /\ UNCHANGED <<numLocs, relpos, db, orig, anchors, relatives, k, last,
                 failed, summary>>
  /\ UNCHANGED wizard
  /\ UNCHANGED core

\* Phase 4, one pair of the scan of _resolve_conflicts: locations[ci] against
\* locations[cj]; past the last pair the scan is over.
ConflictStep(r) ==
  /\ pc[r] = "conflicts"
  /\ MayRun(r)
  /\ IF ci[r] >= numLocs[r]
     THEN /\ pc' = [pc EXCEPT ![r] = "commit"]
          /\ UNCHANGED <<obj, session, ci, cj>>
     ELSE /\ IF Conflict(obj[r][ci[r]], obj[r][cj[r]])
             THEN \E bearing \in Bearings :
                    /\ obj' = [obj EXCEPT ![r][cj[r]] = AdjustedCoordinate(@, bearing)]
                    /\ session' = Touched(session, r, cj[r])
             ELSE UNCHANGED <<obj, session>>
          /\ IF cj[r] < numLocs[r]
             THEN /\ cj' = [cj EXCEPT ![r] = @ + 1]
                  /\ ci' = ci
             ELSE /\ ci' = [ci EXCEPT ![r] = @ + 1]
                  /\ cj' = [cj EXCEPT ![r] = ci[r] + 2]
          /\ pc' = pc
  /\ UNCHANGED <<numLocs, relpos, db, orig, anchors, relatives, k, last,
                 failed, summary>>
  /\ UNCHANGED wizard
  /\ UNCHANGED core

\* self.db.commit(). The table is the one db/models.py declares and
\* initialize_database() creates, which has no constraint on the coordinates;
\* the constraint of migration 003 (both axes within 40 degrees) is not part
\* of it, so a commit never fails on a coordinate.
Commit(r) ==
  /\ pc[r] = "commit"
  /\ MayRun(r)
  /\ db' = Flushed(session, obj, db)
  /\ session' = SessionCommit(session)
  /\ pc' = [pc EXCEPT ![r] = "summary"]
  /\ UNCHANGED <<numLocs, relpos, orig, obj, anchors, relatives, k, ci, cj,
                 last, failed, summary>>
  /\ UNCHANGED wizard
  /\ UNCHANGED core

\* loc.coordinates read after the commit: an object of the session is
\* reloaded from the database, an object outside it keeps its attribute.
ReadCoordinates(r, i) ==
  IF session[r][i] = "absent" THEN obj[r][i] ELSE db[r][i]

\* The summary assign_coordinates_to_world returns.
Summarize(r) ==
  /\ pc[r] = "summary"
  /\ MayRun(r)
  /\ summary' = [summary EXCEPT ![r] =
        [total_locations |-> numLocs[r],
         locations_with_coordinates |->
            Cardinality({i \in Locs(r) : ReadCoordinates(r, i) # NoCoord}),
         anchor_locations |-> Len(anchors[r]),
         relative_locations |-> Len(relatives[r])]]
  /\ pc' = [pc EXCEPT ![r] = "returned"]
  /\ UNCHANGED <<numLocs, relpos, db, orig, obj, session, anchors, relatives,
                 k, ci, cj, last, failed>>
  /\ UNCHANGED wizard
  /\ UNCHANGED core

Next ==
  \E r \in Runs :
    \/ Begin(r)
    \/ Load(r)
    \/ Identify(r)
    \/ Distribute(r)
    \/ NextRelative(r)
    \/ Resolve(r)
    \/ ConflictStep(r)
    \/ Commit(r)
    \/ Summarize(r)

Spec == Init /\ [][Next]_vars

\* Two requests in one server process, for two worlds of ConcLocs locations
\* each: the first location an anchor, the others relative to it, none with a
\* coordinate yet.
InitConc ==
  /\ numLocs = [w \in Runs |-> ConcLocs]
  /\ relpos = [w \in Runs |-> [i \in 1..ConcLocs |-> IF i = 1 THEN NoText ELSE "north of L1"]]
  /\ db = [w \in Runs |-> [i \in 1..ConcLocs |-> NoCoord]]
  /\ orig = db
  /\ obj = db
  /\ session = [w \in Runs |-> [i \in Locs(w) |-> "absent"]]
  /\ pc = [r \in Runs |-> "request"]
  /\ anchors = [r \in Runs |-> <<>>]
  /\ relatives = [r \in Runs |-> <<>>]
  /\ k = [r \in Runs |-> 0]
  /\ ci = [r \in Runs |-> 0]
  /\ cj = [r \in Runs |-> 0]
  /\ last = [r \in Runs |-> NoAttempt]
  /\ failed = [r \in Runs |-> {}]
  /\ summary = [r \in Runs |-> NoSummary]
  /\ WizardInit
  /\ CoreInit

SpecConc == InitConc /\ [][Next]_vars

\* _resolve_conflicts on its own: a list of two locations that both carry a
\* coordinate, each drawn from the origin, a point 2 km north of it, an
\* interior point, and points on the northern, southern and eastern edges of
\* the band.
RepairStarts ==
  {WKTPoint(0, 0), WKTPoint(20, 0), WKTPoint(12000, 34000),
   WKTPoint(40000, 0), WKTPoint(-40000, 40000), WKTPoint(0, 40000)}

InitRepair ==
  /\ numLocs = [w \in Runs |-> IF w = 1 THEN 2 ELSE 0]
  /\ relpos = [w \in Runs |-> IF w = 1 THEN <<NoText, "north of L1">> ELSE <<>>]
  /\ db = [w \in Runs |-> IF w = 1 THEN <<NoCoord, NoCoord>> ELSE <<>>]
  /\ orig = db
  /\ obj \in {o \in [Runs -> {<<>>} \cup [1..2 -> RepairStarts]] :
                Len(o[1]) = 2 /\ o[2] = <<>>}
  /\ session = [w \in Runs |-> IF w = 1 THEN <<"dirty", "dirty">> ELSE <<>>]
  /\ pc = [r \in Runs |-> IF r = 1 THEN "conflicts" ELSE "off"]
  /\ anchors = [r \in Runs |-> IF r = 1 THEN <<1>> ELSE <<>>]
  /\ relatives = [r \in Runs |-> IF r = 1 THEN <<2>> ELSE <<>>]
  /\ k = [r \in Runs |-> IF r = 1 THEN 2 ELSE 0]
  /\ ci = [r \in Runs |-> IF r = 1 THEN 1 ELSE 0]
  /\ cj = [r \in Runs |-> IF r = 1 THEN 2 ELSE 0]
  /\ last = [r \in Runs |-> NoAttempt]
  /\ failed = [r \in Runs |-> {}]
  /\ summary = [r \in Runs |-> NoSummary]
  /\ WizardInit
  /\ CoreInit

NextRepair ==
  \E r \in Runs :
    \/ ConflictStep(r)
    \/ Commit(r)
    \/ Summarize(r)

SpecRepair == InitRepair /\ [][NextRepair]_vars

\* _resolve_conflicts on a list of three locations: the first anchor at the
\* origin; the second location without a coordinate, at the origin, 2 km
\* north of it, or on the northern edge of the band; the third without a
\* coordinate, 10 km north or east of the origin, on the northern edge, or
\* at an interior point.
ScanStarts2 == {NoCoord, WKTPoint(0, 0), WKTPoint(20, 0), WKTPoint(40000, 0)}
ScanStarts3 ==
  {NoCoord, WKTPoint(90, 0), WKTPoint(0, 90), WKTPoint(40000, 0),
   WKTPoint(12000, 34000)}

InitScan ==
  /\ numLocs = [w \in Runs |-> IF w = 1 THEN 3 ELSE 0]
  /\ relpos = [w \in Runs |-> IF w = 1 THEN <<NoText, "north of L1", "north of L1">>
                                         ELSE <<>>]
  /\ db = [w \in Runs |-> IF w = 1 THEN <<NoCoord, NoCoord, NoCoord>> ELSE <<>>]
  /\ orig = db
  /\ \E p2 \in ScanStarts2, p3 \in ScanStarts3 :
       obj = [w \in Runs |-> IF w = 1 THEN <<WKTPoint(0, 0), p2, p3>> ELSE <<>>]
  /\ session = [w \in Runs |-> IF w = 1 THEN <<"dirty", "dirty", "dirty">> ELSE <<>>]
  /\ pc = [r \in Runs |-> IF r = 1 THEN "conflicts" ELSE "off"]
  /\ anchors = [r \in Runs |-> IF r = 1 THEN <<1>> ELSE <<>>]
  /\ relatives = [r \in Runs |-> IF r = 1 THEN <<2, 3>> ELSE <<>>]
  /\ k = [r \in Runs |-> IF r = 1 THEN 3 ELSE 0]
  /\ ci = [r \in Runs |-> IF r = 1 THEN 1 ELSE 0]
  /\ cj = [r \in Runs |-> IF r = 1 THEN 2 ELSE 0]
  /\ last = [r \in Runs |-> NoAttempt]
  /\ failed = [r \in Runs |-> {}]
  /\ summary = [r \in Runs |-> NoSummary]
  /\ WizardInit
  /\ CoreInit

SpecScan == InitScan /\ [][NextRepair]_vars

\* ------------------------------------------------------- the wizard service
\* Session ids a call can name: those start_session hands out, and one more
\* that is the id of no session.
Sids == 1..(MaxSessions + 1)

\* The row a query for session id sid finds (NoRow when it finds none).
FindSession(sid) == IF sid \in WSessions THEN wrow[sid] ELSE NoRow

\* STAGES.index(stage), counted from 1.
StageIndex(stage) == CHOOSE n \in 1..Len(STAGES) : STAGES[n] = stage

\* _advance_stage jumping to the last stage from any stage.
AdvanceStageToEnd(stage) == [returned |-> "complete", stage |-> "complete"]

\* _advance_stage: the value it returns and the stage it leaves the session at.
AdvanceStage(stage) ==
  IF StageIndex(stage) + 1 > Len(STAGES)
  THEN [returned |-> "complete", stage |-> stage]
  ELSE [returned |-> STAGES[StageIndex(stage) + 1],
        stage |-> STAGES[StageIndex(stage) + 1]]

\* The UPDATE of db.commit() for the session object o over row w: the
\* attributes that were assigned, session_stage and is_complete. The JSONB
\* columns conversation_history and gathered_data are plain JSONB, changed in
\* place (append, extend), which the unit of work does not see.
Persisted(w, o) == [w EXCEPT !.stage = o.stage, !.is_complete = o.is_complete]

\* respond checking only that the session exists.
RespondRejectedUnknownOnly(sid) == FindSession(sid) = NoRow

\* The two checks of respond: no such session, or a session already complete.
RespondRejected(sid) == FindSession(sid) = NoRow \/ FindSession(sid).is_complete

\* The two checks of finalize: no such session, or a session not yet complete.
FinalizeRejected(sid) == FindSession(sid) = NoRow \/ ~FindSession(sid).is_complete

\* _calculate_progress with the stages counted as one.
CalculateProgressOverOneStage(row) ==
  IF row.is_complete THEN 100
  ELSE LET base_progress == ((StageIndex(row.stage) - 1) * 100) \div (Len(STAGES) - 2)
           partial == IF row.stage = "world_identity" THEN Min(20, row.facts * 10)
                      ELSE IF row.stage = "locations" THEN Min(20, row.locations * 5)
                      ELSE 0
       IN  Min(100, base_progress + partial)

\* _calculate_progress(session) on the attributes the session object has
\* when it is called.
CalculateProgress(row) ==
  IF row.is_complete THEN 100
  ELSE LET base_progress == ((StageIndex(row.stage) - 1) * 100) \div (Len(STAGES) - 1)
           partial == IF row.stage = "world_identity" THEN Min(20, row.facts * 10)
                      ELSE IF row.stage = "locations" THEN Min(20, row.locations * 5)
                      ELSE 0
       IN  Min(100, base_progress + partial)

\* start_session(world_id): the world is missing (ValueError) or the session
\* row is inserted; the first question is appended to the history in place
\* after the insert, so the row keeps an empty history.
StartSession ==
  /\ wpc = "idle"
  /\ \E s \in WSessions : wrow[s] = NoRow
  /\ \E world_exists \in BOOLEAN :
       IF world_exists
       THEN LET s == CHOOSE n \in WSessions :
                       wrow[n] = NoRow /\ \A m \in 1..(n - 1) : wrow[m] # NoRow
            IN  /\ wrow' = [wrow EXCEPT ![s] =
                              [stage |-> "world_identity", is_complete |-> FALSE,
                               history |-> 0, locations |-> 0, facts |-> 0]]
                /\ wobj' = wrow'[s]
                /\ wcall' = [NoCall EXCEPT !.op = "start", !.sid = s,
                               !.outcome = "returned", !.stage = "world_identity"]
       ELSE /\ wcall' = [NoCall EXCEPT !.op = "start", !.outcome = "ValueError"]
            /\ UNCHANGED <<wrow, wobj>>
  /\ UNCHANGED <<wpc, wcreated, whist>>
  /\ UNCHANGED mapper
  /\ UNCHANGED core

\* respond(session_id, user_response) up to its first await: the two checks,
\* then the user's message appended to the history of the object.
RespondEnter(sid) ==
  /\ wpc = "idle"
  /\ IF RespondRejected(sid)
     THEN /\ wcall' = [NoCall EXCEPT !.op = "respond", !.sid = sid,
                         !.before = FindSession(sid), !.outcome = "ValueError"]
          /\ UNCHANGED <<wobj, wpc, whist>>
     ELSE /\ whist[sid].responds < MaxResponds
          /\ wobj' = [wrow[sid] EXCEPT !.history = @ + 1]
          /\ wpc' = "extracting"
          /\ wcall' = [NoCall EXCEPT !.op = "respond", !.sid = sid,
                         !.before = wrow[sid]]
          /\ whist' = [whist EXCEPT ![sid].responds = @ + 1]
  /\ UNCHANGED <<wrow, wcreated>>
  /\ UNCHANGED mapper
  /\ UNCHANGED core

\* respond from the extraction on: the extraction chain raises (logged, the
\* call goes on) or its locations and facts are merged into the gathered data
\* of the object; the checklist is evaluated, and _is_stage_complete either
\* answers False at once or awaits the completion chain.
RespondExtracted ==
  /\ wpc = "extracting"
  /\ \E extraction \in {"raises", "ok"}, overall_complete \in BOOLEAN :
       /\ wobj' = IF extraction = "ok"
                  THEN [wobj EXCEPT !.locations = @ + 1, !.facts = @ + 1]
                  ELSE wobj
       /\ whist' = IF extraction = "ok"
                   THEN [whist EXCEPT ![wcall.sid].locations = @ + 1,
                                      ![wcall.sid].facts = @ + 1]
                   ELSE whist
       /\ wpc' = IF overall_complete THEN "verifying" ELSE "asking"
  /\ UNCHANGED <<wrow, wcall, wcreated>>
  /\ UNCHANGED mapper
  /\ UNCHANGED core

\* respond once the completion chain has answered (or raised, and then the
\* checklist is trusted): a complete stage is advanced; reaching 'complete'
\* sets is_complete, commits and returns; reaching another stage appends
\* that stage's first question, commits and returns; an incomplete stage
\* goes on to the follow-up question. After the commit the object is
\* expired, and the response is read from the reloaded row.
RespondVerified ==
  /\ wpc = "verifying"
  /\ \E verdict \in {"complete", "incomplete", "raises"} :
       IF verdict = "incomplete"
       THEN /\ wpc' = "asking"
            /\ UNCHANGED <<wrow, wobj, wcall, whist>>
       ELSE LET adv == AdvanceStage(wobj.stage)
                o == [wobj EXCEPT !.stage = adv.stage,
                                  !.is_complete = (adv.returned = "complete"),
                                  !.history = IF adv.returned = "complete" THEN @ ELSE @ + 1]
                row == Persisted(wrow[wcall.sid], o)
                progress == IF adv.returned = "complete" THEN 100
                            ELSE CalculateProgress(row)
            IN  /\ wrow' = [wrow EXCEPT ![wcall.sid] = row]
                /\ wobj' = row
                /\ wcall' = [wcall EXCEPT !.outcome = "returned",
                                !.advanced = adv.returned,
                                !.stage = row.stage,
                                !.is_complete = (adv.returned = "complete"),
                                !.progress = progress]
                /\ whist' = [whist EXCEPT ![wcall.sid].progress = progress]
                /\ wpc' = "idle"
  /\ UNCHANGED wcreated
  /\ UNCHANGED mapper
  /\ UNCHANGED core

\* respond from the follow-up question on: the question chain answers or
\* raises (and a stock question is used), the question is appended to the
\* history of the object, the commit finds nothing assigned, and the
\* response is read from the reloaded row.
RespondAsked ==
  /\ wpc = "asking"
  /\ wobj' = wrow[wcall.sid]
  /\ wcall' = [wcall EXCEPT !.outcome = "returned", !.stage = wrow[wcall.sid].stage,
                            !.progress = CalculateProgress(wrow[wcall.sid])]
  /\ whist' = [whist EXCEPT ![wcall.sid].progress = CalculateProgress(wrow[wcall.sid])]
  /\ wpc' = "idle"
  /\ UNCHANGED <<wrow, wcreated>>
  /\ UNCHANGED mapper
  /\ UNCHANGED core

\* finalize(session_id): the two checks, then one Location per gathered
\* location and one Fact per gathered fact of the loaded row, and the commit.
\* The coordinate assignment that follows on the world is the run that
\* starts at Begin.
Finalize(sid) ==
  /\ wpc = "idle"
  /\ IF FinalizeRejected(sid)
     THEN /\ wcall' = [NoCall EXCEPT !.op = "finalize", !.sid = sid,
                         !.before = FindSession(sid), !.outcome = "ValueError"]
          /\ UNCHANGED <<wobj, wcreated>>
     ELSE /\ wobj' = wrow[sid]
          /\ wcreated' = [locations |-> wcreated.locations + wrow[sid].locations,
                          facts |-> wcreated.facts + wrow[sid].facts]
          /\ wcall' = [NoCall EXCEPT !.op = "finalize", !.sid = sid,
                         !.before = wrow[sid], !.outcome = "returned",
                         !.stage = wrow[sid].stage, !.is_complete = TRUE,
                         !.created = wrow[sid].locations]
  /\ UNCHANGED <<wrow, wpc, whist>>
  /\ UNCHANGED mapper
  /\ UNCHANGED core

\* The wizard service on its own: no world has locations and no
\* coordinate assignment runs.
InitWizard ==
  /\ numLocs = [w \in Runs |-> 0]
  /\ relpos = [w \in Runs |-> <<>>]
  /\ db = [w \in Runs |-> <<>>]
  /\ orig = db
  /\ obj = db
  /\ session = [w \in Runs |-> <<>>]
  /\ pc = [r \in Runs |-> "off"]
  /\ anchors = [r \in Runs |-> <<>>]
  /\ relatives = [r \in Runs |-> <<>>]
  /\ k = [r \in Runs |-> 0]
  /\ ci = [r \in Runs |-> 0]
  /\ cj = [r \in Runs |-> 0]
  /\ last = [r \in Runs |-> NoAttempt]
  /\ failed = [r \in Runs |-> {}]
  /\ summary = [r \in Runs |-> NoSummary]
  /\ WizardInit
  /\ CoreInit

NextWizard ==
  \/ StartSession
  \/ \E sid \in Sids : RespondEnter(sid)
  \/ RespondExtracted
  \/ RespondVerified
  \/ RespondAsked
  \/ \E sid \in Sids : Finalize(sid)

SpecWizard == InitWizard /\ [][NextWizard]_vars

\* ------------------------------------------------------------ core package

\* PluginRegistry.register rebinding the name whatever it holds.
RegisterOverwriting(reg, i) ==
  [outcome |-> "returned", plugins |-> [reg EXCEPT ![PluginName(i)] = i]]

\* PluginRegistry.register(plugin) on the dict reg: its outcome and the dict
\* it leaves.
Register(reg, i) ==
  IF reg[PluginName(i)] # NoPlugin
  THEN [outcome |-> "ValueError", plugins |-> reg]
  ELSE [outcome |-> "returned", plugins |-> [reg EXCEPT ![PluginName(i)] = i]]

\* PluginRegistry.get(name) on the dict reg: its outcome and what it returns.
Get(reg, name) ==
  IF reg[name] = NoPlugin
  THEN [outcome |-> "KeyError", result |-> NoPlugin]
  ELSE [outcome |-> "returned", result |-> reg[name]]

\* registry.register(plugin)
RegistryRegister(i) ==
  LET res == Register(plugins, i)
  IN  /\ plugins' = res.plugins
      /\ pfirst' = IF res.outcome = "returned" /\ pfirst[PluginName(i)] = NoPlugin
                   THEN [pfirst EXCEPT ![PluginName(i)] = i]
                   ELSE pfirst
      /\ pcall' = [op |-> "register", name |-> PluginName(i), plugin |-> i,
                   outcome |-> res.outcome, result |-> NoPlugin]
      /\ UNCHANGED node
      /\ UNCHANGED <<mapper, wizard>>

\* registry.get(name)
RegistryGet(name) ==
  LET res == Get(plugins, name)
  IN  /\ pcall' = [op |-> "get", name |-> name, plugin |-> NoPlugin,
                   outcome |-> res.outcome, result |-> res.result]
      /\ UNCHANGED <<plugins, pfirst, node>>
      /\ UNCHANGED <<mapper, wizard>>

\* create_retry_node(max_attempts, backoff), and the state the graph hands
\* to the node first: without an attempts key, or with a counter that is
\* within max_attempts.
CreateRetryNode ==
  /\ ~node.created
  /\ \E max_attempts \in 1..MaxRetryLimit, backoff \in {"exponential", "linear"},
        has \in BOOLEAN, attempts \in 0..1 :
       /\ has \/ attempts = 0
       /\ node' = [created |-> TRUE, max_attempts |-> max_attempts,
                   backoff |-> backoff, has_attempts |-> has,
                   attempts |-> attempts, applied |-> 0]
  /\ UNCHANGED <<plugins, pfirst, pcall>>
  /\ UNCHANGED <<mapper, wizard>>

\* state.get("attempts", 0)
StateAttempts(st) == IF st.has_attempts THEN st.attempts ELSE 0

\* retry_node(state): the attempts counter of the state it returns.
RetryNode(st) == StateAttempts(st) + 1

\* The node applied to the state the previous application returned.
ApplyRetryNode ==
  /\ node.created
  /\ StateAttempts(node) < AttemptsCap
  /\ node' = [node EXCEPT !.has_attempts = TRUE, !.attempts = RetryNode(node),
                          !.applied = @ + 1]
  /\ UNCHANGED <<plugins, pfirst, pcall>>
  /\ UNCHANGED <<mapper, wizard>>

\* The core package on its own: no world has locations, no wizard session
\* exists.
InitCore == InitWizard

NextCore ==
  \/ \E i \in PluginIds : RegistryRegister(i)
  \/ \E name \in PluginNames : RegistryGet(name)
  \/ CreateRetryNode
  \/ ApplyRetryNode

SpecCore == InitCore /\ [][NextCore]_vars

\* ================================================================== claims
InWorldBounds(p) ==
  /\ LatMin <= ST_Y(p) /\ ST_Y(p) <= LatMax
  /\ LonMin <= ST_X(p) /\ ST_X(p) <= LonMax

\* The position in relatives[r] of the location of the latest attempt.
LastIndex(r) == IndexIn(relatives[r], last[r].loc)

\* The latest attempt of run r ended with an exception of the resolution
\* itself (parser, agent, or a reply that was rejected).
LastFailed(r) == last[r].loc # 0 /\ last[r].error \notin {"", "CancelledError"}

\* C1: every location that had a coordinate before the run has the same
\* coordinate once the run has returned, in the database and on the object.
C1_ExistingCoordinatesKept ==
  \A r \in Runs : pc[r] = "returned" =>
    \A i \in Locs(r) : orig[r][i] # NoCoord =>
      db[r][i] = orig[r][i] /\ obj[r][i] = orig[r][i]

\* C2: once a run has returned, every coordinate of its world, committed or
\* on the objects, lies in latitude [-40, 40] and longitude [-180, 180].
C2_BoundsAfterRun ==
  \A r \in Runs : pc[r] = "returned" =>
    \A i \in Locs(r) :
      /\ db[r][i] # NoCoord => InWorldBounds(db[r][i])
      /\ obj[r][i] # NoCoord => InWorldBounds(obj[r][i])

\* A returned run in which a resolution failed, a reply on the edge of the
\* longitude range was accepted and the anchor was placed.
C2_Witness ==
  \E r \in Runs : \E i \in Locs(r) : \E j \in Locs(r) :
    /\ pc[r] = "returned"
    /\ failed[r] # {}
    /\ db[r][i] # NoCoord /\ ST_X(db[r][i]) = LonMax
    /\ j # i /\ db[r][j] = WKTPoint(0, 0)

\* C3: a failed resolution is logged and the loop goes on to the next
\* relative location; only a cancellation leaves the function with an
\* exception; the conflict scan starts after every relative location has been
\* attempted, the commit follows the whole scan and flushes every change, and
\* the run returns a summary.
C3_FailureIsIsolated ==
  \A r \in Runs :
    /\ LastFailed(r) =>
         /\ pc[r] = "resolve"
         /\ k[r] = LastIndex(r) + 1
         /\ last[r].loc \in failed[r]
    /\ pc[r] = "raised" => last[r].error = "CancelledError"
    /\ (pc[r] \in {"conflicts", "commit", "summary", "returned"} /\ numLocs[r] > 0) =>
         k[r] = Len(relatives[r]) + 1
    /\ (pc[r] \in {"summary", "returned"} /\ numLocs[r] > 0) =>
         /\ ci[r] >= numLocs[r]
         /\ \A i \in Locs(r) : session[r][i] = "clean" /\ db[r][i] = obj[r][i]
    /\ pc[r] = "returned" => summary[r] # NoSummary

\* A returned run in which a relative location failed and a later one was
\* resolved and committed.
C3_Witness ==
  \E r \in Runs : \E a \in 1..Len(relatives[r]) : \E b \in 1..Len(relatives[r]) :
    /\ pc[r] = "returned"
    /\ a < b
    /\ relatives[r][a] \in failed[r]
    /\ relatives[r][b] \notin failed[r]
    /\ db[r][relatives[r][b]] # orig[r][relatives[r][b]]
    /\ summary[r].total_locations = numLocs[r]

\* A request that has loaded its locations and has not committed yet.
RunInProgress(r) ==
  pc[r] \in {"identify", "distribute", "resolve", "await_parser", "conflicts", "commit"}

\* C4: the coordinates a run assigns reach the database, where other
\* connections read them, at its commit and all together: before the commit
\* (in progress, raised or abandoned) the world's committed coordinates are
\* those from before the run, after it they are those of the run's objects.
C4_VisibleOnlyAtCommit ==
  \A r \in Runs :
    /\ pc[r] \notin {"summary", "returned"} => db[r] = orig[r]
    /\ pc[r] \in {"summary", "returned"} => \A i \in Locs(r) : db[r][i] = obj[r][i]

\* C5: two interleaved runs share no mutable state: what an unfinished run
\* has assigned so far is neither persisted (its world's committed
\* coordinates are the original ones) nor discarded (every object it has
\* changed is still pending in the session) by the other request.
C5_RunsShareNoState ==
  \A r \in Runs : RunInProgress(r) =>
    /\ db[r] = orig[r]
    /\ \A i \in Locs(r) : obj[r][i] # db[r][i] => session[r][i] = "dirty"

\* The constraint of location i of world r names a location the world has not.
ReferenceMissing(r, i) ==
  /\ ReferenceName(relpos[r][i]) # ""
  /\ \A j \in Locs(r) : LocName(j) # ReferenceName(relpos[r][i])

Numeric(x) == x.kind \in {"number", "numstr"}

\* The reply is a JSON object, bare or fenced, with numbers for both fields.
ProposalNumeric(reply) ==
  /\ reply.msg = "text" /\ reply.wrap # "tagged_fence" /\ reply.body = "object"
  /\ Numeric(reply.proposed_lat) /\ Numeric(reply.proposed_lon)

ProposalInBounds(reply) ==
  /\ ProposalNumeric(reply)
  /\ InWorldBounds(WKTPoint(reply.proposed_lat.v, reply.proposed_lon.v))

ProposalOutOfBounds(reply) ==
  /\ ProposalNumeric(reply)
  /\ ~InWorldBounds(WKTPoint(reply.proposed_lat.v, reply.proposed_lon.v))

Proposed(reply) == WKTPoint(reply.proposed_lat.v, reply.proposed_lon.v)

Clipped(reply) ==
  WKTPoint(Max(LatMin, Min(LatMax, reply.proposed_lat.v)),
           Max(LonMin, Min(LonMax, reply.proposed_lon.v)))

C8_NoOutOfBoundsStored ==
  \A r \in Runs :
    /\ \A i \in Locs(r) : obj[r][i] # NoCoord => InWorldBounds(obj[r][i])
    /\ (last[r].loc # 0 /\ ProposalOutOfBounds(last[r].reply)) =>
         \A i \in Locs(r) : obj[r][i] # Proposed(last[r].reply)

\* An out-of-bounds longitude reported with high confidence and every
\* constraint satisfied.
C8_Witness ==
  \E r \in Runs :
    /\ last[r].loc # 0
    /\ ProposalOutOfBounds(last[r].reply)
    /\ last[r].reply.proposed_lon.v = LonMax + 1
    /\ last[r].reply.confidence = "high"
    /\ last[r].reply.validation_results = AllSatisfied

\* The reply has a final message that is no JSON object, or one without
\* numbers under proposed_lat and proposed_lon.
Malformed(reply) ==
  /\ reply.msg = "text"
  /\ \/ reply.body # "object"
     \/ ~Numeric(reply.proposed_lat)
     \/ ~Numeric(reply.proposed_lon)

\* C9: after a malformed reply the location has the coordinate it had before
\* the attempt, and the loop stands at the next relative location.
C9_MalformedReplyLeavesCoordinate ==
  \A r \in Runs :
    (last[r].loc # 0 /\ Malformed(last[r].reply)) =>
      /\ obj[r][last[r].loc] = last[r].before
      /\ last[r].error # ""
      /\ pc[r] = "resolve"
      /\ k[r] = LastIndex(r) + 1

\* A null latitude for a location that had a coordinate, which it keeps.
C9_Witness ==
  \E r \in Runs :
    /\ last[r].loc # 0
    /\ last[r].reply.msg = "text" /\ last[r].reply.body = "object"
    /\ last[r].reply.proposed_lat = Null
    /\ last[r].before = WKTPoint(15000, 35000)
    /\ obj[r][last[r].loc] = WKTPoint(15000, 35000)

\* validation_results as the response contract has it: absent, or a list
\* (possibly empty) of entries that each name their constraint.
ReportWellFormed(val) ==
  \/ val.kind = "absent"
  \/ /\ val.kind = "list"
     /\ \A n \in 1..Len(val.items) : val.items[n].has_constraint

PlacedEarlier(r, i) ==
  \/ InSeq(i, anchors[r])
  \/ /\ InSeq(i, relatives[r])
     /\ IndexIn(relatives[r], i) < k[r]
     /\ i \notin failed[r]

\* C11: while a relative location is being resolved, the reference data of
\* its resolution holds the coordinate of every location placed earlier in
\* the run: the request lists it, or the tools read it.
C11_ReferencesIncludeEarlierPlacements ==
  \A r \in Runs : pc[r] = "await_parser" =>
    \A i \in Locs(r) : PlacedEarlier(r, i) =>
      \/ ToolCoordinate(r, i) = obj[r][i]
      \/ \E n \in 1..Len(OracleRequest(r, relatives[r][k[r]]).locations) :
           OracleRequest(r, relatives[r][k[r]]).locations[n] = <<LocName(i), obj[r][i]>>

\* Run r has just distributed its anchors: the loop over the relative
\* locations has not started.
AfterDistribution(r) == pc[r] = "resolve" /\ k[r] = 1

Identified(r) == pc[r] \notin {"off", "request", "load", "identify"} /\ numLocs[r] > 0

\* Every location of world r has a non-blank constraint text.
AllConstrained(r) == \A i \in Locs(r) : ~HasNoPosition(relpos[r][i])

C13_ForcedAnchorState ==
  \A r \in Runs : Identified(r) =>
    /\ Len(anchors[r]) >= 1
    /\ AllConstrained(r) =>
         /\ anchors[r] = <<1>>
         /\ relatives[r] = [n \in 1..(numLocs[r] - 1) |-> n + 1]
         /\ last[r].loc # 1
         /\ AfterDistribution(r) => obj[r][1] = WKTPoint(0, 0)

\* C13: a non-empty world has at least one anchor; when every location
\* carries a non-blank constraint text the first location alone is the anchor
\* (placed by the distributor, never handed to the resolver), all the others
\* are relatives, and no step changes a constraint text.
C13_ForcedAnchor ==
  /\ []C13_ForcedAnchorState
  /\ [][relpos' = relpos]_vars

\* A returned run over three locations that all carry a constraint: the
\* first one, still with its text, sits at the origin as the only anchor.
C13_Witness ==
  \E r \in Runs :
    /\ pc[r] = "returned" /\ numLocs[r] = 3 /\ AllConstrained(r)
    /\ relpos[r][1] = "north of Atlantis"
    /\ anchors[r] = <<1>> /\ relatives[r] = <<2, 3>>
    /\ db[r][1] = WKTPoint(0, 0)
    /\ summary[r].anchor_locations = 1

\* The conflict scan of run r is over.
ConflictsResolved(r) == pc[r] \in {"commit", "summary", "returned"}

Unlocated(r) == {i \in Locs(r) : db[r][i] = NoCoord}

\* C15: the returned summary counts every location as anchor or relative,
\* never reports more located locations than there are, and the difference
\* of the two is the number of locations without coordinate in the database
\* once the run has committed.
C15_SummaryCounts ==
  \A r \in Runs : pc[r] = "returned" =>
    /\ summary[r].total_locations = numLocs[r]
    /\ summary[r].total_locations =
         summary[r].anchor_locations + summary[r].relative_locations
    /\ 0 <= summary[r].locations_with_coordinates
    /\ summary[r].locations_with_coordinates <= summary[r].total_locations
    /\ summary[r].total_locations - summary[r].locations_with_coordinates
         = Cardinality(Unlocated(r))

\* The place of a control point in the order of the phases: Load, anchor
\* distribution, relative resolution, conflict resolution, Commit.
PhaseRank(p) ==
  CASE p \in {"off", "request"} -> 0
    [] p = "load" -> 1
    [] p \in {"identify", "distribute"} -> 2
    [] p \in {"resolve", "await_parser"} -> 3
    [] p = "conflicts" -> 4
    [] p = "commit" -> 5
    [] OTHER -> 6

\* What holds inside each phase of run r.
C16_PhaseConditions ==
  \A r \in Runs :
    /\ PhaseRank(pc[r]) = 3 =>
         \A n \in 1..Len(anchors[r]) : obj[r][anchors[r][n]] # NoCoord
    /\ pc[r] = "await_parser" => k[r] \in 1..Len(relatives[r])
    /\ PhaseRank(pc[r]) \in {4, 5} => k[r] = Len(relatives[r]) + 1
    /\ pc[r] \in {"commit", "summary"} => ci[r] >= numLocs[r]

\* What every step of run r does to its phase: it stays or moves forward, and
\* within the resolution and the conflict scan the cursor never moves back.
C16_PhaseStep ==
  \A r \in Runs :
    /\ PhaseRank(pc'[r]) >= PhaseRank(pc[r])
    /\ (PhaseRank(pc[r]) = 3 /\ PhaseRank(pc'[r]) = 3) => k'[r] >= k[r]
    /\ (pc[r] = "await_parser" /\ pc'[r] = "resolve") => k'[r] = k[r] + 1
    /\ (pc[r] = "conflicts" /\ pc'[r] = "conflicts") =>
         \/ ci'[r] > ci[r]
         \/ ci'[r] = ci[r] /\ cj'[r] > cj[r]

\* C16: the phases of a run come in the order Load, anchor distribution,
\* relative resolution, conflict resolution, Commit and none is revisited; a
\* relative location is resolved only when every anchor has a coordinate, the
\* conflict scan starts only when every relative location has been attempted,
\* and Commit comes only when the scan is over.
C16_PhaseOrder ==
  /\ []C16_PhaseConditions
  /\ [][C16_PhaseStep]_vars

\* A run over one anchor and two relatives that has gone through every phase.
C16_Witness ==
  \E r \in Runs :
    /\ pc[r] = "returned"
    /\ Len(anchors[r]) = 1 /\ Len(relatives[r]) = 2
    /\ k[r] = 3 /\ ci[r] = 3
    /\ summary[r].locations_with_coordinates = 3

C18_FrameStep ==
  /\ numLocs' = numLocs
  /\ relpos' = relpos
  /\ \A r \in Runs : DOMAIN db'[r] = Locs(r) /\ DOMAIN obj'[r] = Locs(r)

\* C18: no step of a run creates or deletes a location or changes a field of
\* a location other than its coordinate.
C18_OnlyCoordinatesChange == [][C18_FrameStep]_vars

\* A returned run that changed coordinates in a world whose texts, a blank
\* one and a blank-free one, are what they were.
C18_Witness ==
  \E r \in Runs :
    /\ pc[r] = "returned" /\ numLocs[r] = 3
    /\ relpos[r] = <<"north of Atlantis", BlankText, "north of L1">>
    /\ \A i \in Locs(r) : db[r][i] # orig[r][i]

\* The latest wizard call is a respond on an existing session.
RespondedTo(s) == wcall.op = "respond" /\ wcall.sid = s /\ wcall.before # NoRow

\* What holds of a respond call and the stage of its session.
C19_StageOfCall ==
  \A s \in WSessions : RespondedTo(s) =>
    /\ StageIndex(wrow[s].stage) - StageIndex(wcall.before.stage) \in {0, 1}
    /\ wcall.advanced # "" =>
         /\ wcall.outcome = "returned"
         /\ StageIndex(wrow[s].stage) = StageIndex(wcall.before.stage) + 1
         /\ wcall.advanced = wrow[s].stage
         /\ wcall.stage = wrow[s].stage
    /\ (wcall.advanced = "" /\ wcall.outcome # "") => wrow[s].stage = wcall.before.stage

\* What a step does to the stage of a session: nothing, or one step forward
\* within a respond call on that session.
C19_StageStep ==
  \A s \in WSessions : wrow[s] # NoRow =>
    /\ wrow'[s] # NoRow
    /\ \/ wrow'[s].stage = wrow[s].stage
       \/ /\ StageIndex(wrow'[s].stage) = StageIndex(wrow[s].stage) + 1
          /\ RespondedTo(s)
          /\ wpc = "verifying" /\ wpc' = "idle"

\* C19: _advance_stage moves the session one stage forward along
\* world_identity, locations, complete and returns the stage reached; over
\* any sequence of calls the stage of a session never moves back, never
\* skips a stage, and moves at most one stage per respond call.
C19_StageAdvancesByOne ==
  /\ []C19_StageOfCall
  /\ [][C19_StageStep]_vars

\* The second session brought to 'complete' by a respond call that found it
\* at 'locations', while the first session is still at its first stage.
C19_Witness ==
  /\ RespondedTo(2)
  /\ wcall.before.stage = "locations" /\ wcall.advanced = "complete"
  /\ wrow[2].stage = "complete" /\ wrow[2].is_complete
  /\ wrow[1].stage = "world_identity"

\* The latest wizard call is a respond or a finalize that had to be refused:
\* it found no session, or respond found a complete one, or finalize an
\* incomplete one.
Refused ==
  \/ wcall.op \in {"respond", "finalize"} /\ wcall.before = NoRow
  \/ wcall.op = "respond" /\ wcall.before.is_complete
  \/ wcall.op = "finalize" /\ wcall.before # NoRow /\ ~wcall.before.is_complete

\* A refused call has raised ValueError and is over, and only such calls of
\* respond and finalize raise it.
C20_RefusedRaises ==
  /\ Refused => (wcall.outcome = "ValueError" /\ wpc = "idle")
  /\ (wcall.op \in {"respond", "finalize"} /\ wcall.outcome = "ValueError") => Refused

\* The step of a call of respond or finalize that raises ValueError: the call
\* saw the rows as they were, and rows, session object, created locations and
\* facts, and the worlds are as before.
C20_RefusedStep ==
  (wcall' # wcall /\ wcall'.op \in {"respond", "finalize"}
     /\ wcall'.outcome = "ValueError") =>
    /\ wcall'.before = FindSession(wcall'.sid)
    /\ wrow' = wrow /\ wobj' = wobj /\ wcreated' = wcreated /\ wpc' = wpc
    /\ UNCHANGED mapper
    /\ UNCHANGED core

\* C20: respond on a session that is already complete, finalize on a session
\* that is not complete, and either call with an unknown session id raise
\* ValueError and change nothing: no history entry is appended, no gathered
\* data is added, no location or fact is created.
C20_RefusedCallsChangeNothing ==
  /\ []C20_RefusedRaises
  /\ [][C20_RefusedStep]_vars

\* respond refused on the first session, which is complete, while a second
\* session exists that is not.
C20_Witness ==
  /\ wcall.op = "respond" /\ wcall.sid = 1 /\ wcall.outcome = "ValueError"
  /\ wcall.before.is_complete /\ wrow[1] = wcall.before
  /\ wrow[2] # NoRow /\ ~wrow[2].is_complete

\* What holds of the registry and its latest call: a name is bound exactly
\* when a register succeeded for it, and then to the plugin of the first
\* one; the plugin of a refused register is not the one bound; get raises
\* KeyError exactly for a name never registered and otherwise returns the
\* plugin of the first successful register.
C21_RegistryState ==
  /\ \A n \in PluginNames : plugins[n] = pfirst[n]
  /\ (pcall.op = "register" /\ pcall.outcome = "ValueError") =>
       /\ plugins[pcall.name] # NoPlugin
       /\ plugins[pcall.name] # pcall.plugin \/ pfirst[pcall.name] = pcall.plugin
  /\ (pcall.op = "register" /\ pcall.outcome = "returned") =>
       plugins[pcall.name] = pcall.plugin
  /\ pcall.op = "get" =>
       /\ pcall.outcome = "KeyError" <=> pfirst[pcall.name] = NoPlugin
       /\ pcall.outcome = "returned" <=> pfirst[pcall.name] # NoPlugin
       /\ pcall.outcome = "returned" => pcall.result = pfirst[pcall.name]

\* What a call does to the registry: register of a name already bound
\* raises ValueError and leaves the registry as it was; no call rebinds or
\* unbinds a name.
C21_RegistryStep ==
  /\ (pcall' # pcall /\ pcall'.op = "register"
        /\ plugins[pcall'.name] # NoPlugin) =>
       (pcall'.outcome = "ValueError" /\ plugins' = plugins)
  /\ \A n \in PluginNames : plugins[n] # NoPlugin => plugins'[n] = plugins[n]

\* C21: register of a plugin whose name is already registered raises
\* ValueError and leaves the registry unchanged; get of a name never
\* registered raises KeyError; after any sequence of register calls get(name)
\* returns the plugin of the first successful register for that name.
C21_FirstRegistrationWins ==
  /\ []C21_RegistryState
  /\ [][C21_RegistryStep]_vars

\* get returns plugin 3, the first one registered as world_builder, while
\* nothing is registered as conversation.
C21_Witness ==
  /\ pcall.op = "get" /\ pcall.name = "world_builder"
  /\ pcall.outcome = "returned" /\ pcall.result = 3
  /\ pfirst["world_builder"] = 3 /\ plugins["conversation"] = NoPlugin

\* C26: a retry node created by create_retry_node(max_attempts = N) allows
\* at most N attempts: after any sequence of applications of the node the
\* attempts counter of the resulting state never exceeds N.
C26_AttemptsWithinMax ==
  node.created => StateAttempts(node) <= node.max_attempts

\* The scan of run r has just looked at a pair: its position has moved on.
PairCompared(r) ==
  /\ pc[r] = "conflicts"
  /\ <<ci[r], cj[r]>> # <<ci'[r], cj'[r]>>

\* The point the fixed offset away from p along the bearing.
OffsetFrom(p, bearing) ==
  LET q == ST_Project(p, OffsetM, bearing) IN WKTPoint(q[1], q[2])

C22_RepairStep ==
  \A r \in Runs :
    (PairCompared(r) /\ Conflict(obj[r][ci[r]], obj[r][cj[r]])) =>
      /\ \A i \in Locs(r) \ {cj[r]} : obj'[r][i] = obj[r][i]
      /\ \E bearing \in Bearings :
           obj'[r][cj[r]] = OffsetFrom(obj[r][cj[r]], bearing)

\* C22: when the conflict resolver finds a pair closer than the minimum
\* separation it changes the coordinate of the later location of the pair
\* only, and the new position lies exactly the fixed offset (10 km) from the
\* position before the repair; the earlier location of the pair and all
\* other locations are unchanged.
C22_RepairMovesSecondByOffset == [][C22_RepairStep]_vars

\* The pair the scan looks at after the pair (i, j) of n locations.
NextPair(i, j, n) == IF j < n THEN <<i, j + 1>> ELSE <<i + 1, i + 2>>

\* While the scan runs it stands on a pair in index order, or past the last.
C23_ScanPosition ==
  \A r \in Runs : pc[r] = "conflicts" =>
    /\ ci[r] >= 1
    /\ ci[r] < numLocs[r] => (ci[r] < cj[r] /\ cj[r] <= numLocs[r])

\* A step of the scan looks at the pair it stands on, with the coordinates
\* the two locations have then, repairs the second one exactly when they
\* are in conflict, and moves on to the next pair in index order; the scan
\* is left only past the last pair, and never goes back.
C23_ScanStep ==
  \A r \in Runs :
    /\ (pc[r] # "conflicts" /\ pc'[r] = "conflicts") => <<ci'[r], cj'[r]>> = <<1, 2>>
    /\ PairCompared(r) =>
         /\ ci[r] < numLocs[r] /\ pc'[r] = "conflicts"
         /\ <<ci'[r], cj'[r]>> = NextPair(ci[r], cj[r], numLocs[r])
         /\ IF Conflict(obj[r][ci[r]], obj[r][cj[r]])
            THEN \E bearing \in Bearings :
                   obj'[r] = [obj[r] EXCEPT ![cj[r]] = AdjustedCoordinate(@, bearing)]
            ELSE obj'[r] = obj[r]
    /\ (pc[r] = "conflicts" /\ ~PairCompared(r)) => obj'[r] = obj[r]
    /\ (pc[r] = "conflicts" /\ pc'[r] # "conflicts") =>
         (ci[r] >= numLocs[r] /\ pc'[r] = "commit")

\* C23: conflict resolution is a single pass: each pair of locations is
\* compared once per run, in index order; a location moved by a repair is
\* not compared again with a location it was already compared with, and
\* every pair compared after the repair uses its new coordinate.
C23_SinglePass ==
  /\ []C23_ScanPosition
  /\ [][C23_ScanStep]_vars

\* The scan stands on the pair (2, 3): location 2 was at the origin with
\* location 1, has been moved 10 km north, and in its new position is in
\* conflict with location 3, which location 1 is not.
C23_Witness ==
  /\ pc[1] = "conflicts" /\ ci[1] = 2 /\ cj[1] = 3
  /\ obj[1][2] = WKTPoint(90, 0)
  /\ Conflict(obj[1][2], obj[1][3])
  /\ ~Conflict(obj[1][1], obj[1][3])

\* The RelativePositionParse of a constraint text: the reference it names,
\* its direction, its distance qualifier and its additional constraints.
ParseOf(text) ==
  [reference_location_name |-> ReferenceName(text),
   direction |-> IF ReferenceName(text) # "" THEN "north" ELSE "",
   distance_qualifier |-> IF ReferenceName(text) # "" THEN "nearby" ELSE "",
   additional_constraints |-> <<>>]

\* The parse names one reference, one direction and a single distance, and
\* nothing else.
SimpleParse(parse) ==
  /\ parse.reference_location_name # ""
  /\ parse.direction # ""
  /\ parse.distance_qualifier # ""
  /\ parse.additional_constraints = <<>>

\* C24: for a relative location whose constraint parse names exactly one
\* reference location, one direction and a single distance, the resolver
\* computes the coordinate by direct projection from the reference and does
\* not invoke the Oracle; the Oracle is invoked only for compound or fuzzy
\* constraints.
C24_SimpleConstraintProjectedDirectly ==
  \A r \in Runs :
    (/\ last[r] # NoAttempt
     /\ last[r].parser = "ok"
     /\ ~ReferenceMissing(r, last[r].loc)
     /\ SimpleParse(ParseOf(relpos[r][last[r].loc]))) =>
      /\ last[r].agent = ""
      /\ last[r].error = "" =>
           /\ ST_X(obj[r][last[r].loc]) = ST_X(obj[r][1])
           /\ ST_Y(obj[r][last[r].loc]) > ST_Y(obj[r][1])

\* The point lies in the band of 40 degrees either side on both axes.
InBand(p) ==
  /\ p # NoCoord
  /\ LatMin <= ST_Y(p) /\ ST_Y(p) <= LatMax
  /\ BandLonMin <= ST_X(p) /\ ST_X(p) <= BandLonMax

\* C25: every coordinate produced by anchor distribution, for every anchor
\* count n >= 1 and every index, has latitude in [-40, 40] and longitude in
\* [-40, 40], not the wider world longitude range.
C25_AnchorsInBand ==
  /\ \A total \in 1..MaxLocs : \A n \in 1..total : InBand(AnchorCoordinate(n, total))
  /\ \A r \in Runs : AfterDistribution(r) =>
       \A n \in 1..Len(anchors[r]) : InBand(obj[r][anchors[r][n]])

\* Two anchors, the second put on the corner of the band, and three anchors
\* would put their second one at longitude 30.557.
C25_Witness ==
  \E r \in Runs :
    /\ AfterDistribution(r)
    /\ Len(anchors[r]) = 2
    /\ obj[r][anchors[r][2]] = WKTPoint(-40000, 40000)
    /\ AnchorCoordinate(2, 3) = WKTPoint(0, 30557)

\* y = 1 - (index / float(total_points - 1)) * 2 as a fraction over
\* total_points - 1.
SpiralY(index, total_points) ==
  [num |-> (total_points - 1) - 2 * index, den |-> total_points - 1]

\* C27: _fibonacci_sphere_point is reached from anchor distribution only with
\* 1 <= index <= total_points - 1 and total_points >= 2; it is never called
\* for the first anchor or for a single-anchor world, so total_points - 1 is
\* never zero and y stays within [-1, 1].
C27_SpiralArgumentsInRange ==
  \A r \in Runs : AfterDistribution(r) =>
    \A n \in 1..Len(anchors[r]) :
      LET a == AnchorPlacement(n, Len(anchors[r]))
          y == SpiralY(a.index, a.total_points)
      IN  /\ obj[r][anchors[r][n]] = a.point
          /\ (n = 1 \/ Len(anchors[r]) = 1) => ~a.called
          /\ a.called =>
               /\ a.total_points >= 2
               /\ 1 <= a.index /\ a.index <= a.total_points - 1
               /\ y.den # 0
               /\ -y.den <= y.num /\ y.num <= y.den

\* Three anchors: the spiral is called for the last one with index 2 of 3,
\* where y = -1.
C27_Witness ==
  \E r \in Runs :
    /\ AfterDistribution(r)
    /\ Len(anchors[r]) = 3
    /\ AnchorPlacement(3, 3).called /\ AnchorPlacement(3, 3).index = 2
    /\ SpiralY(2, 3) = [num |-> -2, den |-> 2]
    /\ ~AnchorPlacement(1, 3).called

\* The summary of a world in which nothing was counted.
ZeroSummary ==
  [total_locations |-> 0, locations_with_coordinates |-> 0,
   anchor_locations |-> 0, relative_locations |-> 0]

\* C28: for a world with no locations assign_coordinates_to_world returns a
\* summary whose four counts are zero and performs none of the later phases:
\* no anchor is placed, the Oracle is not called, no conflict scan runs and
\* no commit is issued.
C28_EmptyWorldReturnsAtOnce ==
  \A r \in Runs : numLocs[r] = 0 =>
    /\ pc[r] \in {"off", "request", "load", "returned"}
    /\ pc[r] = "returned" <=> summary[r] # NoSummary
    /\ summary[r] \in {NoSummary, ZeroSummary}
    /\ anchors[r] = <<>> /\ relatives[r] = <<>>
    /\ last[r] = NoAttempt /\ failed[r] = {}
    /\ ci[r] = 0 /\ cj[r] = 0
    /\ db[r] = <<>> /\ obj[r] = <<>>

\* The request for the empty world 1 has returned its summary of zeros.
C28_Witness ==
  /\ numLocs[1] = 0
  /\ pc[1] = "returned"
  /\ summary[1] = ZeroSummary

\* What holds of the progress reported: the latest response of respond and
\* the latest report on every session lie within 0..100, and a response
\* reports 100 exactly when it reports is_complete.
C29_ProgressReported ==
  /\ \A s \in WSessions : whist[s].progress \in {-1} \cup 0..100
  /\ (wcall.op = "respond" /\ wcall.outcome = "returned") =>
       /\ wcall.progress \in 0..100
       /\ wcall.progress = whist[wcall.sid].progress
       /\ wcall.progress = 100 <=> wcall.is_complete

\* From one response on a session to the next the progress does not go down.
C29_ProgressStep ==
  \A s \in WSessions : whist'[s].progress >= whist[s].progress

\* C29: across any sequence of respond calls on one wizard session the
\* reported progress_percentage stays within 0..100 and never decreases from
\* one call to the next, and it is 100 exactly in the response that reports
\* is_complete = true.
C29_ProgressMonotone ==
  /\ []C29_ProgressReported
  /\ [][C29_ProgressStep]_vars

\* The second respond on session 1 reports completion and 100 after the
\* first reported less, while session 2 stands at 50 after two responds.
C29_Witness ==
  /\ wcall.op = "respond" /\ wcall.sid = 1 /\ wcall.outcome = "returned"
  /\ wcall.is_complete /\ wcall.progress = 100
  /\ whist[1].responds = 2
  /\ whist[2].progress = 50 /\ whist[2].responds = 2

\* A call of finalize has just returned.
Finalized ==
  /\ wcall' # wcall
  /\ wcall'.op = "finalize" /\ wcall'.outcome = "returned"

C30_FinalizeStep ==
  Finalized =>
    /\ wcreated'.locations = wcreated.locations + whist[wcall'.sid].locations
    /\ wcreated'.facts = wcreated.facts + whist[wcall'.sid].facts
    /\ wcall'.created = whist[wcall'.sid].locations
    /\ wrow' = wrow

\* C30: finalize has no once-only guard: every call on a complete wizard
\* session inserts one new location per gathered location and one new fact
\* per gathered fact, so calling it k times leaves k copies of each gathered
\* location; it does not change the session's is_complete flag, stage or
\* gathered data.
C30_FinalizeInsertsGathered == [][C30_FinalizeStep]_vars

====
